---- MODULE Spec2Model ----
(***************************************************************************)
(* The narrative beat sequencer (SequenceRunner and its beats) as a state   *)
(* machine.  Time is counted in tenths of a second, so the duration 1.0 of  *)
(* the source is 10 here and update(0.4) is Update(4).                      *)
(***************************************************************************)
EXTENDS Integers, Sequences, FiniteSets, TLC

\* ---------------------------------------------------------------- bounds
MaxBeats == 3        \* beat objects constructed in one behaviour
MaxUpdates == 2      \* the update-call counters saturate here
MaxFinishes == 2     \* finish calls one beat object receives in one behaviour

\* ---------------------------------------------------------------- inputs
DtSet == {0, 4, 10}
Events == {"choice_made", "story_continue"}

\* descriptors: tagged records; a field that is left out is absent
TypeOnly(t) == [type |-> t]
WaitDesc(d) == [type |-> "wait", duration |-> d]
ShowChoiceDesc == TypeOnly("show_choice")
ShowStoryDesc == TypeOnly("show_story")
CustomCallbackDesc == TypeOnly("custom_callback")
BogusDesc == TypeOnly("bogus")
KeyPromptDesc(k) == [type |-> "key_prompt", key |-> k]
InteractionDesc(t) == [type |-> "interaction", targetId |-> t]
CustomCallbackFor(d) == [type |-> "custom_callback", duration |-> d]
SceneSwapDesc(p) == [type |-> "scene_swap", targetPhase |-> p]
\* free_roam that polls the player's distance to a target position
FreeRoamReachDesc(p) == [type |-> "free_roam", targetPosition |-> p]
\* free_roam that waits for an "interaction" signal; the position is not polled
FreeRoamInteractDesc(t, p) ==
  [type |-> "free_roam", triggerType |-> "interact", targetId |-> t,
   targetPosition |-> p]
FreeRoamInteractAnyDesc(p) ==
  [type |-> "free_roam", triggerType |-> "interact", targetPosition |-> p]
\* the camera travels along one axis: from, to and the position are its z
CameraMoveDesc(e, d) ==
  [type |-> "camera_move", from |-> 0, to |-> 10, lookAt |-> 0,
   duration |-> d, easing |-> e]

BeatTypes ==
  {"camera_move", "wait", "text_bubble", "reaction", "show_choice",
   "show_story", "fade", "free_roam", "scene_swap", "interaction", "overlay",
   "custom_callback", "key_prompt"}

\* the descriptor lists handed to start
SequenceLists ==
  { << >>,
    <<WaitDesc(10)>>,
    <<WaitDesc(0)>>,
    <<ShowChoiceDesc>>,
    <<BogusDesc, WaitDesc(0)>>,
    <<ShowChoiceDesc, WaitDesc(10)>>,
    <<CustomCallbackDesc, ShowStoryDesc>>,
    <<CustomCallbackDesc, ShowChoiceDesc, CustomCallbackDesc>> }

\* ---------------------------------------------------------------- beats
\* data.f || dflt for a numeric field: an absent field and 0 are both falsy
OrDefault(data, f, dflt) ==
  IF f \in DOMAIN data /\ data[f] # 0 THEN data[f] ELSE dflt

\* data.f || dflt for a string field: an absent field and "" are both falsy
StrOrDefault(data, f, dflt) ==
  IF f \in DOMAIN data /\ data[f] # "" THEN data[f] ELSE dflt

\* a beat object; id names the object (0 is no object)
NewBeat(cls, duration, waiting) ==
  [id |-> 0, cls |-> cls, duration |-> duration, elapsed |-> 0, waiting |-> waiting]

NULL == NewBeat("null", 0, FALSE)

\* EASINGS, on the time fraction n/d; the value is the fraction num/den
EasingNames ==
  {"linear", "easeInCubic", "easeOutCubic", "easeInOutCubic", "easeOutBack"}

Cube(x) == x * x * x

Ease(name, n, d) ==
  CASE name = "linear" -> [num |-> n, den |-> d]
    [] name = "easeInCubic" -> [num |-> Cube(n), den |-> Cube(d)]
    [] name = "easeOutCubic" -> [num |-> Cube(d) - Cube(d - n), den |-> Cube(d)]
    [] name = "easeInOutCubic" ->
         IF 2 * n < d
         THEN [num |-> 4 * Cube(n), den |-> Cube(d)]
         ELSE [num |-> 2 * Cube(d) - Cube(2 * d - 2 * n), den |-> 2 * Cube(d)]
    [] name = "easeOutBack" ->
         [num |-> 100000 * Cube(d) + 270158 * Cube(n - d)
                    + 170158 * (n - d) * (n - d) * d,
          den |-> 100000 * Cube(d)]

\* the constructor dereferences data.from, data.to and data.lookAt
CameraMoveThrows(data) ==
  \/ "from" \notin DOMAIN data
  \/ "to" \notin DOMAIN data
  \/ "lookAt" \notin DOMAIN data

CameraMoveBeat(data) ==
  [id |-> 0, cls |-> "CameraMoveBeat", from |-> data.from, to |-> data.to,
   duration |-> OrDefault(data, "duration", 20),
   easing |-> IF "easing" \in DOMAIN data /\ data.easing \in EasingNames
              THEN data.easing ELSE "easeInOutCubic",
   elapsed |-> 0]

WaitBeat(data) == NewBeat("WaitBeat", OrDefault(data, "duration", 10), FALSE)

TextBubbleBeat(data) ==
  [id |-> 0, cls |-> "TextBubbleBeat", duration |-> OrDefault(data, "duration", 30),
   elapsed |-> 0, element |-> FALSE]

ReactionBeat(data) ==
  [id |-> 0, cls |-> "ReactionBeat", duration |-> OrDefault(data, "duration", 15),
   elapsed |-> 0, sprite |-> FALSE]

ShowChoiceBeat(data) == NewBeat("ShowChoiceBeat", 0, TRUE)

FadeBeat(data) ==
  [id |-> 0, cls |-> "FadeBeat", direction |-> StrOrDefault(data, "direction", "in"),
   duration |-> OrDefault(data, "duration", 10), elapsed |-> 0]

FreeRoamBeat(data) ==
  [id |-> 0, cls |-> "FreeRoamBeat",
   triggerType |-> StrOrDefault(data, "triggerType", "reach_position"),
   targetId |-> StrOrDefault(data, "targetId", "null"),
   targetPosition |-> StrOrDefault(data, "targetPosition", "null"),
   triggered |-> FALSE]

SceneSwapBeat(data) ==
  [id |-> 0, cls |-> "SceneSwapBeat",
   targetPhase |-> IF "targetPhase" \in DOMAIN data THEN data.targetPhase
                   ELSE "undefined"]

InteractionBeat(data) ==
  [id |-> 0, cls |-> "InteractionBeat",
   targetId |-> StrOrDefault(data, "targetId", "null"), waiting |-> TRUE]

OverlayBeat(data) ==
  [id |-> 0, cls |-> "OverlayBeat", action |-> StrOrDefault(data, "action", "show")]

\* mutant: the beat never holds
CustomCallbackBeat_noDuration(data) == NewBeat("CustomCallbackBeat", 0, FALSE)

CustomCallbackBeat(data) ==
  NewBeat("CustomCallbackBeat", OrDefault(data, "duration", 0), FALSE)

KeyPromptBeat(data) ==
  [id |-> 0, cls |-> "KeyPromptBeat", key |-> StrOrDefault(data, "key", "A"),
   triggered |-> FALSE]

ShowStoryBeat(data) == NewBeat("ShowStoryBeat", 0, TRUE)

\* whether constructing the beat for data raises an error
createBeatThrows(data) == data.type = "camera_move" /\ CameraMoveThrows(data)

createBeat(data) ==
  CASE data.type = "camera_move" -> CameraMoveBeat(data)
    [] data.type = "wait" -> WaitBeat(data)
    [] data.type = "text_bubble" -> TextBubbleBeat(data)
    [] data.type = "reaction" -> ReactionBeat(data)
    [] data.type = "show_choice" -> ShowChoiceBeat(data)
    [] data.type = "show_story" -> ShowStoryBeat(data)
    [] data.type = "fade" -> FadeBeat(data)
    [] data.type = "free_roam" -> FreeRoamBeat(data)
    [] data.type = "scene_swap" -> SceneSwapBeat(data)
    [] data.type = "interaction" -> InteractionBeat(data)
    [] data.type = "overlay" -> OverlayBeat(data)
    [] data.type = "custom_callback" -> CustomCallbackBeat(data)
    [] data.type = "key_prompt" -> KeyPromptBeat(data)
    [] OTHER -> WaitBeat([duration |-> 0])

\* the beats that count elapsed time
Timed(b) ==
  b.cls \in {"CameraMoveBeat", "WaitBeat", "TextBubbleBeat", "ReactionBeat",
             "FadeBeat", "CustomCallbackBeat"}

\* mutant: a beat that waits for an event starts as if it had heard it
BeatStart_unblocked(b) ==
  CASE b.cls = "TextBubbleBeat" -> [b EXCEPT !.elapsed = 0, !.element = TRUE]
    [] b.cls = "ReactionBeat" -> [b EXCEPT !.elapsed = 0, !.sprite = TRUE]
    [] b.cls \in {"ShowChoiceBeat", "ShowStoryBeat", "InteractionBeat"} ->
         [b EXCEPT !.waiting = FALSE]
    [] b.cls \in {"FreeRoamBeat", "KeyPromptBeat"} -> [b EXCEPT !.triggered = TRUE]
    [] b.cls \in {"SceneSwapBeat", "OverlayBeat"} -> b
    [] OTHER -> [b EXCEPT !.elapsed = 0]

\* start(ctx), as far as it assigns the beat's own fields
BeatStart(b) ==
  CASE b.cls = "TextBubbleBeat" -> [b EXCEPT !.elapsed = 0, !.element = TRUE]
    [] b.cls = "ReactionBeat" -> [b EXCEPT !.elapsed = 0, !.sprite = TRUE]
    [] b.cls \in {"ShowChoiceBeat", "ShowStoryBeat", "InteractionBeat"} ->
         [b EXCEPT !.waiting = TRUE]
    [] b.cls \in {"FreeRoamBeat", "KeyPromptBeat"} -> [b EXCEPT !.triggered = FALSE]
    [] b.cls \in {"SceneSwapBeat", "OverlayBeat"} -> b
    [] OTHER -> [b EXCEPT !.elapsed = 0]

\* mutant: the position is polled whatever the trigger type
ReachedTarget_anyType(b, playerAt) ==
  /\ b.targetPosition # "null"
  /\ playerAt = b.targetPosition

\* FreeRoamBeat.update: the player is within the radius of the target position
ReachedTarget(b, playerAt) ==
  /\ b.triggerType = "reach_position"
  /\ b.targetPosition # "null"
  /\ playerAt = b.targetPosition

\* the beat as update(dt, ctx) leaves it
BeatUpdate(b, dt, playerAt) ==
  IF Timed(b) THEN [b EXCEPT !.elapsed = @ + dt]
  ELSE IF b.cls = "FreeRoamBeat" /\ ~b.triggered /\ ReachedTarget(b, playerAt)
       THEN [b EXCEPT !.triggered = TRUE]
       ELSE b

\* mutant: a timer is done only when the elapsed time exceeds the duration
BeatDone_strict(u) ==
  CASE u.cls = "CameraMoveBeat" -> u.elapsed >= u.duration
    [] Timed(u) -> u.elapsed > u.duration
    [] u.cls \in {"ShowChoiceBeat", "ShowStoryBeat", "InteractionBeat"} -> ~u.waiting
    [] u.cls \in {"FreeRoamBeat", "KeyPromptBeat"} -> u.triggered
    [] OTHER -> TRUE

\* mutant: a suspended beat gives up waiting
BeatDone_noWait(u) ==
  CASE Timed(u) -> u.elapsed >= u.duration
    [] u.cls \in {"FreeRoamBeat", "KeyPromptBeat"} -> u.triggered
    [] OTHER -> TRUE

\* what update(dt, ctx) returns, u being the beat as that call left it
BeatDone(u) ==
  CASE Timed(u) -> u.elapsed >= u.duration
    [] u.cls \in {"ShowChoiceBeat", "ShowStoryBeat", "InteractionBeat"} -> ~u.waiting
    [] u.cls \in {"FreeRoamBeat", "KeyPromptBeat"} -> u.triggered
    [] OTHER -> TRUE

\* mutant: the camera follows the uncapped time fraction
CameraPosition_uncapped(b) ==
  LET et == Ease(b.easing, b.elapsed, b.duration)
  IN [num |-> b.from * et.den + (b.to - b.from) * et.num, den |-> et.den]

\* CameraMoveBeat.update: lerpVectors(from, to, easing(min(elapsed/duration, 1)))
CameraPosition(b) ==
  LET n == IF b.elapsed >= b.duration THEN b.duration ELSE b.elapsed
      et == Ease(b.easing, n, b.duration)
  IN [num |-> b.from * et.den + (b.to - b.from) * et.num, den |-> et.den]

HasOnSignal(b) ==
  b.cls \in {"ShowChoiceBeat", "ShowStoryBeat", "FreeRoamBeat", "InteractionBeat",
             "KeyPromptBeat"}

\* mutant: the choice beat listens for the story event
ShowChoiceOnSignal_wrongEvent(b, eventName) ==
  IF eventName = "story_continue" THEN [b EXCEPT !.waiting = FALSE] ELSE b

ShowChoiceOnSignal(b, eventName) ==
  IF eventName = "choice_made" THEN [b EXCEPT !.waiting = FALSE] ELSE b

\* mutant: the story beat takes any event as its own
ShowStoryOnSignal_anyEvent(b, eventName) == [b EXCEPT !.waiting = FALSE]

ShowStoryOnSignal(b, eventName) ==
  IF eventName = "story_continue" THEN [b EXCEPT !.waiting = FALSE] ELSE b

\* payload && payload.id === targetId, "none" being no payload
PayloadMatches(targetId, payload) ==
  targetId = "null" \/ (payload # "none" /\ payload = targetId)

FreeRoamOnSignal(b, eventName, payload) ==
  IF /\ eventName = "interaction"
     /\ b.triggerType = "interact"
     /\ PayloadMatches(b.targetId, payload)
  THEN [b EXCEPT !.triggered = TRUE] ELSE b

\* mutant: any "interaction" signal lets the beat through
InteractionOnSignal_anyPayload(b, eventName, payload) ==
  IF eventName = "interaction" THEN [b EXCEPT !.waiting = FALSE] ELSE b

InteractionOnSignal(b, eventName, payload) ==
  IF eventName = "interaction" /\ PayloadMatches(b.targetId, payload)
  THEN [b EXCEPT !.waiting = FALSE] ELSE b

\* String.prototype.toLowerCase on the key identifiers
ToLowerCase(k) ==
  CASE k = "A" -> "a"
    [] k = "B" -> "b"
    [] OTHER -> k

\* mutant: the key id is compared as configured, in upper case
KeyPromptOnSignal_noLowerCase(b, eventName) ==
  IF eventName = "key_" \o b.key THEN [b EXCEPT !.triggered = TRUE] ELSE b

KeyPromptOnSignal(b, eventName) ==
  IF eventName = "key_" \o ToLowerCase(b.key)
  THEN [b EXCEPT !.triggered = TRUE] ELSE b

BeatOnSignal(b, eventName, payload) ==
  CASE b.cls = "ShowChoiceBeat" -> ShowChoiceOnSignal(b, eventName)
    [] b.cls = "ShowStoryBeat" -> ShowStoryOnSignal(b, eventName)
    [] b.cls = "FreeRoamBeat" -> FreeRoamOnSignal(b, eventName, payload)
    [] b.cls = "InteractionBeat" -> InteractionOnSignal(b, eventName, payload)
    [] b.cls = "KeyPromptBeat" -> KeyPromptOnSignal(b, eventName)

\* ------------------------------------------------- record of the calls
\* calls[id] counts what the runner has called on beat object id
NewCalls ==
  [starts |-> 0, finishes |-> 0, doneReports |-> 0,
   updAfterDone |-> FALSE, updAfterFinish |-> FALSE, sigWhenNotLive |-> FALSE]

Sat(n) == IF n >= MaxUpdates THEN MaxUpdates ELSE n + 1

Live(c) == c.starts > 0 /\ c.finishes = 0

CalledStart(c) == [c EXCEPT !.starts = @ + 1]
CalledFinish(c) == [c EXCEPT !.finishes = @ + 1]
CalledUpdate(c, done) ==
  [c EXCEPT !.updAfterDone = @ \/ c.doneReports > 0,
            !.updAfterFinish = @ \/ c.finishes > 0,
            !.doneReports = IF done THEN @ + 1 ELSE @]
CalledOnSignal(c) == [c EXCEPT !.sigWhenNotLive = @ \/ ~Live(c)]

\* ---------------------------------------------------------------- runner
VARIABLES beats, currentIndex, activeBeat, isRunning, onComplete,
          \* what the beats act on
          env,          \* which collaborator hooks and DOM elements exist
          levelUi,      \* ids of the beats whose element is a child of #level-ui
          sprites,      \* ids of the beats whose sprite is in the scene
          promptHidden, \* #interaction-prompt carries the class "hidden"
          gameState,    \* main.js gameState, as set through ctx.setGameState
          controller,   \* playerController.enabled
          playerAt,     \* the place the player anchor stands at
          triggers,     \* InteractionSystem.triggers
          activeTrigger,\* InteractionSystem.activeTrigger
          camera,       \* ctx.camera.position, as the fraction num/den
          level,        \* the level's currentPhase and activeSubScene
          context,      \* this.context: the scene and camera the beats reach
          \* the record of what happened
          calls,        \* per beat object constructed so far, the calls made on it
          activeData,   \* the descriptor the active beat was constructed from
          effects,      \* collaborator calls made by the active beat's start
          heardMatch,   \* the active beat was sent the event it waits for
          accDt,        \* sum of dt over the update calls on the active timed beat
          threw,        \* the last call on the runner raised an error
          fired,        \* onComplete invocations since the last start
          completions,  \* beats whose update reported done since the last start
          updCalls,     \* update calls since the last start (saturating)
          beatUpdates,  \* update calls the active beat has received (saturating)
          runState,     \* "none", "started" (no stop since the last start), "stopped"
          cbAtStart,    \* whether onComplete was set when the last start was called
          lastOp,       \* the last call made on the runner
          lastEvent     \* the event name of that call when it is a signal

vars == <<beats, currentIndex, activeBeat, isRunning, onComplete,
          env, levelUi, sprites, promptHidden, gameState, controller, playerAt,
          triggers, activeTrigger, camera, level, context,
          calls, activeData, effects, heardMatch, accDt, threw,
          fired, completions, updCalls, beatUpdates, runState, cbAtStart,
          lastOp, lastEvent>>

\* the variables no method of the runner or of a beat assigns
hostVars == <<env, updCalls, runState, cbAtStart>>

NoData == TypeOnly("null")
NoTrigger == [id |-> "null", owner |-> 0]
InteractionPoints == {"chair", "computer", "phone"}

AllHooks ==
  [container |-> TRUE, overlayEl |-> TRUE, setPhase |-> TRUE,
   controlOverlay |-> TRUE, callback |-> TRUE]

\* the event a suspended beat made from data waits for
Matches(data, eventName, payload) ==
  CASE data.type = "show_choice" -> eventName = "choice_made"
    [] data.type = "show_story" -> eventName = "story_continue"
    [] data.type = "key_prompt" ->
         IF "key" \in DOMAIN data /\ data.key \in {"B", "b"}
         THEN eventName = "key_b" ELSE eventName = "key_a"
    [] data.type \in {"interaction", "free_roam"} ->
         /\ data.type = "free_roam" =>
              "triggerType" \in DOMAIN data /\ data.triggerType = "interact"
         /\ eventName = "interaction"
         /\ "targetId" \in DOMAIN data => payload = data.targetId
    [] OTHER -> FALSE

\* the runner object and what its beats reach through ctx, as one record
Runner ==
  [beats |-> beats, currentIndex |-> currentIndex, activeBeat |-> activeBeat,
   isRunning |-> isRunning, onComplete |-> onComplete,
   env |-> env, levelUi |-> levelUi, sprites |-> sprites,
   promptHidden |-> promptHidden, gameState |-> gameState,
   controller |-> controller, playerAt |-> playerAt, triggers |-> triggers,
   activeTrigger |-> activeTrigger, camera |-> camera,
   level |-> level, context |-> context,
   calls |-> calls, activeData |-> activeData, effects |-> effects,
   heardMatch |-> heardMatch, accDt |-> accDt, threw |-> threw,
   fired |-> fired, completions |-> completions, beatUpdates |-> beatUpdates]

Becomes(r) ==
  /\ beats' = r.beats
  /\ currentIndex' = r.currentIndex
  /\ activeBeat' = r.activeBeat
  /\ isRunning' = r.isRunning
  /\ onComplete' = r.onComplete
  /\ levelUi' = r.levelUi
  /\ sprites' = r.sprites
  /\ promptHidden' = r.promptHidden
  /\ gameState' = r.gameState
  /\ controller' = r.controller
  /\ triggers' = r.triggers
  /\ activeTrigger' = r.activeTrigger
  /\ camera' = r.camera
  /\ level' = r.level
  /\ context' = r.context
  /\ playerAt' = r.playerAt
  /\ calls' = r.calls
  /\ activeData' = r.activeData
  /\ effects' = r.effects
  /\ heardMatch' = r.heardMatch
  /\ accDt' = r.accDt
  /\ threw' = r.threw
  /\ fired' = r.fired
  /\ completions' = r.completions
  /\ beatUpdates' = r.beatUpdates

\* InteractionSystem.hidePrompt
hidePrompt(r) == [r EXCEPT !.promptHidden = TRUE, !.activeTrigger = NoTrigger]

\* levelAPI.disableFreeRoam
disableFreeRoam(r) == hidePrompt([r EXCEPT !.controller = FALSE])

Did(r, what) == [r EXCEPT !.effects = Append(@, what)]

Phases == {"SUBWAY", "CITY", "OFFICE"}

\* the level's setPhase: the previous phase is cleaned up, the sub-scene of a
\* known phase becomes the active one, and CITY and OFFICE place the player
setPhase(r, phase) ==
  [hidePrompt(r) EXCEPT
     !.triggers = << >>,
     !.controller = FALSE,
     !.level = [currentPhase |-> phase,
                activeSubScene |-> IF phase \in Phases THEN phase
                                   ELSE @.activeSubScene],
     !.playerAt = IF phase \in {"CITY", "OFFICE"} THEN "spawn" ELSE @]

\* the scene and camera the level hands out: those of its active sub-scene
LevelRefs(r) ==
  [scene |-> r.level.activeSubScene, camera |-> r.level.activeSubScene]

\* mutant: the context keeps the scene and camera it was started with
SceneSwapStart_noRebind(r, b) ==
  IF r.env.setPhase THEN Did(setPhase(r, b.targetPhase), "setPhase") ELSE r

\* SceneSwapBeat.start
SceneSwapStart(r, b) ==
  IF r.env.setPhase
  THEN LET swapped == Did(setPhase(r, b.targetPhase), "setPhase")
       IN [swapped EXCEPT !.context = LevelRefs(swapped)]
  ELSE r

\* levelAPI.enableInteraction
enableInteraction(r, b) ==
  IF b.targetId \in InteractionPoints
  THEN [r EXCEPT !.triggers = Append(@, [id |-> b.targetId, owner |-> b.id])]
  ELSE r

\* mutant: start reaches for its hook without looking whether it is there
StartWorld_noGuard(r, b) ==
  CASE b.cls = "CameraMoveBeat" ->
         [r EXCEPT !.camera = [num |-> b.from, den |-> 1]]
    [] b.cls = "TextBubbleBeat" ->
         Did([r EXCEPT !.levelUi = @ \cup {b.id}], "appendChild")
    [] b.cls = "ReactionBeat" ->
         Did([r EXCEPT !.sprites = @ \cup {b.id}], "scene.add")
    [] b.cls = "ShowChoiceBeat" -> Did(r, "onShowChoice")
    [] b.cls = "ShowStoryBeat" -> Did(r, "onShowStory")
    [] b.cls = "FadeBeat" -> Did(r, "overlay")
    [] b.cls = "FreeRoamBeat" ->
         [r EXCEPT !.gameState = "level_freeroam", !.controller = TRUE]
    [] b.cls = "SceneSwapBeat" ->
         SceneSwapStart([r EXCEPT !.env = AllHooks], b)
    [] b.cls = "InteractionBeat" ->
         [enableInteraction(r, b) EXCEPT !.gameState = "level_freeroam",
                                         !.controller = TRUE]
    [] b.cls = "OverlayBeat" -> Did(r, "controlOverlay")
    [] b.cls = "CustomCallbackBeat" -> Did(r, "callback")
    [] b.cls = "KeyPromptBeat" ->
         Did([r EXCEPT !.gameState = "level_sequence", !.promptHidden = FALSE],
             "showPrompt")
    [] OTHER -> r

\* start(ctx) of beat b, as far as it acts on what ctx reaches
StartWorld(r, b) ==
  CASE b.cls = "CameraMoveBeat" ->
         [r EXCEPT !.camera = [num |-> b.from, den |-> 1]]
    [] b.cls = "TextBubbleBeat" ->
         IF r.env.container
         THEN Did([r EXCEPT !.levelUi = @ \cup {b.id}], "appendChild")
         ELSE r
    [] b.cls = "ReactionBeat" ->
         Did([r EXCEPT !.sprites = @ \cup {b.id}], "scene.add")
    [] b.cls = "ShowChoiceBeat" -> Did(r, "onShowChoice")
    [] b.cls = "ShowStoryBeat" -> Did(r, "onShowStory")
    [] b.cls = "FadeBeat" -> IF r.env.overlayEl THEN Did(r, "overlay") ELSE r
    [] b.cls = "FreeRoamBeat" ->
         [r EXCEPT !.gameState = "level_freeroam", !.controller = TRUE]
    [] b.cls = "SceneSwapBeat" -> SceneSwapStart(r, b)
    [] b.cls = "InteractionBeat" ->
         [enableInteraction(r, b) EXCEPT !.gameState = "level_freeroam",
                                         !.controller = TRUE]
    [] b.cls = "OverlayBeat" ->
         IF r.env.controlOverlay THEN Did(r, "controlOverlay") ELSE r
    [] b.cls = "CustomCallbackBeat" ->
         IF r.env.callback THEN Did(r, "callback") ELSE r
    [] b.cls = "KeyPromptBeat" ->
         Did([r EXCEPT !.gameState = "level_sequence", !.promptHidden = FALSE],
             "showPrompt")
    [] OTHER -> r

\* update(dt, ctx) of beat u, as far as it acts on what ctx reaches
UpdateWorld(r, u) ==
  IF u.cls = "CameraMoveBeat" THEN [r EXCEPT !.camera = CameraPosition(u)] ELSE r

\* finish(ctx) of beat b
FinishWorld(r, b) ==
  CASE b.cls = "TextBubbleBeat" ->
         IF b.element /\ b.id \in r.levelUi
         THEN [r EXCEPT !.levelUi = @ \ {b.id}] ELSE r
    [] b.cls = "ReactionBeat" ->
         IF b.sprite THEN [r EXCEPT !.sprites = @ \ {b.id}] ELSE r
    [] b.cls = "FreeRoamBeat" ->
         disableFreeRoam([r EXCEPT !.gameState = "level_sequence"])
    [] b.cls = "InteractionBeat" ->
         hidePrompt(disableFreeRoam([r EXCEPT !.gameState = "level_sequence"]))
    [] b.cls = "KeyPromptBeat" -> [r EXCEPT !.promptHidden = TRUE]
    [] OTHER -> r

\* activeBeat.finish(ctx)
FinishActive(r) ==
  [FinishWorld(r, r.activeBeat) EXCEPT !.calls[r.activeBeat.id] = CalledFinish(@)]

\* mutant: the end of the list does not invoke onComplete
EndOfList_noCallback(r) == [r EXCEPT !.isRunning = FALSE]

\* advanceToNext, past the last descriptor
EndOfList(r) ==
  [r EXCEPT !.isRunning = FALSE,
            !.fired = IF r.onComplete THEN @ + 1 ELSE @]

\* advanceToNext, constructing and starting the next beat
NextBeat(r) ==
  LET beatData == r.beats[r.currentIndex + 1]
      b == BeatStart([createBeat(beatData) EXCEPT !.id = Len(r.calls) + 1])
  IN IF createBeatThrows(beatData) THEN [r EXCEPT !.threw = TRUE]
     ELSE StartWorld([r EXCEPT !.activeBeat = b,
                               !.calls = Append(@, CalledStart(NewCalls)),
                               !.activeData = beatData,
                               !.effects = << >>,
                               !.heardMatch = FALSE,
                               !.accDt = 0,
                               !.beatUpdates = 0], b)

advanceToNext(r) ==
  IF r.currentIndex >= Len(r.beats) THEN EndOfList(r) ELSE NextBeat(r)

start(r, sequence) ==
  advanceToNext([r EXCEPT !.beats = sequence, !.currentIndex = 0,
                          !.context = LevelRefs(r),
                          !.isRunning = TRUE, !.threw = FALSE,
                          !.fired = 0, !.completions = 0])

\* mutant: a beat that reports done is skipped over together with its successor
update_skipsOne(r, dt) ==
  IF ~r.isRunning \/ r.activeBeat = NULL THEN [r EXCEPT !.threw = FALSE]
  ELSE LET id == r.activeBeat.id
           u == BeatUpdate(r.activeBeat, dt, r.playerAt)
           done == BeatDone(u)
           called == UpdateWorld([r EXCEPT !.activeBeat = u,
                                           !.threw = FALSE,
                                           !.beatUpdates = Sat(@),
                                           !.accDt = IF Timed(u) THEN @ + dt ELSE @,
                                           !.calls[id] = CalledUpdate(@, done)], u)
       IN IF done
          THEN advanceToNext([FinishActive(called) EXCEPT
                                !.currentIndex = @ + 2,
                                !.completions = @ + 1])
          ELSE called

\* mutant: a beat started by an update is updated in that same call
update_cascade(r, dt) ==
  LET once(q) ==
        IF ~q.isRunning \/ q.activeBeat = NULL THEN [q EXCEPT !.threw = FALSE]
        ELSE LET id == q.activeBeat.id
                 u == BeatUpdate(q.activeBeat, dt, q.playerAt)
                 done == BeatDone(u)
                 called == UpdateWorld([q EXCEPT !.activeBeat = u,
                                                 !.threw = FALSE,
                                                 !.beatUpdates = Sat(@),
                                                 !.accDt = IF Timed(u) THEN @ + dt ELSE @,
                                                 !.calls[id] = CalledUpdate(@, done)], u)
             IN IF done
                THEN advanceToNext([FinishActive(called) EXCEPT
                                      !.currentIndex = @ + 1,
                                      !.completions = @ + 1])
                ELSE called
      first == once(r)
  IN  IF first.currentIndex > r.currentIndex THEN once(first) ELSE first

update(r, dt) ==
  IF ~r.isRunning \/ r.activeBeat = NULL THEN [r EXCEPT !.threw = FALSE]
  ELSE LET id == r.activeBeat.id
           u == BeatUpdate(r.activeBeat, dt, r.playerAt)
           done == BeatDone(u)
           called == UpdateWorld([r EXCEPT !.activeBeat = u,
                                           !.threw = FALSE,
                                           !.beatUpdates = Sat(@),
                                           !.accDt = IF Timed(u) THEN @ + dt ELSE @,
                                           !.calls[id] = CalledUpdate(@, done)], u)
       IN IF done
          THEN advanceToNext([FinishActive(called) EXCEPT
                                !.currentIndex = @ + 1,
                                !.completions = @ + 1])
          ELSE called

signal(r, eventName, payload) ==
  IF r.activeBeat # NULL /\ HasOnSignal(r.activeBeat)
  THEN [r EXCEPT !.activeBeat = BeatOnSignal(@, eventName, payload),
                 !.threw = FALSE,
                 !.heardMatch = @ \/ Matches(r.activeData, eventName, payload),
                 !.calls[r.activeBeat.id] = CalledOnSignal(@)]
  ELSE [r EXCEPT !.threw = FALSE]

\* mutant: stop drops the active beat without finishing it
stop_noFinish(r) ==
  [r EXCEPT !.isRunning = FALSE, !.activeBeat = NULL, !.activeData = NoData,
            !.threw = FALSE,
            !.levelUi = IF r.env.container THEN {} ELSE @]

\* mutant: stop reports the run as completed
stop_firesCallback(r) ==
  LET f == IF r.activeBeat # NULL THEN FinishActive(r) ELSE r
  IN [f EXCEPT !.isRunning = FALSE, !.activeBeat = NULL, !.activeData = NoData,
               !.threw = FALSE,
               !.fired = IF r.onComplete THEN @ + 1 ELSE @,
               !.levelUi = IF r.env.container THEN {} ELSE @]

stop(r) ==
  LET f == IF r.activeBeat # NULL THEN FinishActive(r) ELSE r
  IN [f EXCEPT !.isRunning = FALSE, !.activeBeat = NULL, !.activeData = NoData,
               !.threw = FALSE,
               !.levelUi = IF r.env.container THEN {} ELSE @]

\* InteractionSystem.update: the first trigger within reach of the player
Nearest(trigs, at) ==
  LET near == {i \in 1..Len(trigs) : trigs[i].id = at}
  IN IF near = {} THEN NoTrigger
     ELSE trigs[CHOOSE i \in near : \A j \in near : i <= j]

\* InteractionSystem.tryInteract: the closure handed over by beat `owner` runs
tryInteract(r) ==
  IF r.activeTrigger # NoTrigger /\ r.activeBeat.id = r.activeTrigger.owner
  THEN [r EXCEPT !.activeBeat.waiting = FALSE, !.heardMatch = TRUE]
  ELSE r

\* ---------------------------------------------------------------- actions
InitWith(e) ==
  /\ beats = << >>
  /\ currentIndex = 0
  /\ activeBeat = NULL
  /\ isRunning = FALSE
  /\ onComplete = FALSE
  /\ env = e
  /\ levelUi = {}
  /\ sprites = {}
  /\ promptHidden = TRUE
  /\ gameState = "level_sequence"
  /\ controller = FALSE
  /\ playerAt = "spawn"
  /\ triggers = << >>
  /\ activeTrigger = NoTrigger
  /\ camera = [num |-> 0, den |-> 1]
  /\ level = [currentPhase |-> "SUBWAY", activeSubScene |-> "SUBWAY"]
  /\ context = [scene |-> "none", camera |-> "none"]
  /\ calls = << >>
  /\ activeData = NoData
  /\ effects = << >>
  /\ heardMatch = FALSE
  /\ accDt = 0
  /\ threw = FALSE
  /\ fired = 0
  /\ completions = 0
  /\ updCalls = 0
  /\ beatUpdates = 0
  /\ runState = "none"
  /\ cbAtStart = FALSE
  /\ lastOp = "new"
  /\ lastEvent = "none"

Init == InitWith(AllHooks)

\* main.js assigns the completion callback before it starts a sequence
SetOnComplete ==
  /\ ~onComplete
  /\ Becomes([Runner EXCEPT !.onComplete = TRUE])
  /\ lastOp' = "setOnComplete"
  /\ lastEvent' = "none"
  /\ UNCHANGED hostVars

Start(sequence) ==
  /\ Len(start(Runner, sequence).calls) <= MaxBeats
  /\ Becomes(start(Runner, sequence))
  /\ updCalls' = 0
  /\ runState' = "started"
  /\ cbAtStart' = onComplete
  /\ lastOp' = "start"
  /\ lastEvent' = "none"
  /\ UNCHANGED env

Update(dt) ==
  /\ Len(update(Runner, dt).calls) <= MaxBeats
  /\ \A id \in 1..Len(calls) : update(Runner, dt).calls[id].finishes <= MaxFinishes
  /\ Becomes(update(Runner, dt))
  /\ updCalls' = Sat(updCalls)
  /\ lastOp' = "update"
  /\ lastEvent' = "none"
  /\ UNCHANGED <<env, runState, cbAtStart>>

Signal(eventName, payload) ==
  /\ Becomes(signal(Runner, eventName, payload))
  /\ lastOp' = "signal"
  /\ lastEvent' = eventName
  /\ UNCHANGED hostVars

Stop ==
  /\ Becomes(stop(Runner))
  /\ runState' = "stopped"
  /\ lastOp' = "stop"
  /\ lastEvent' = "none"
  /\ UNCHANGED <<env, updCalls, cbAtStart>>

\* main.js handleInput in level_freeroam: the player walks to another place
MovePlayer(at) ==
  /\ gameState = "level_freeroam"
  /\ controller
  /\ at # playerAt
  /\ playerAt' = at
  /\ lastOp' = "move"
  /\ lastEvent' = "none"
  /\ UNCHANGED <<beats, currentIndex, activeBeat, isRunning, onComplete,
                 env, levelUi, sprites, promptHidden, gameState, controller,
                 triggers, activeTrigger, camera, level, context,
                 calls, activeData, effects, heardMatch, accDt, threw,
                 fired, completions, updCalls, beatUpdates, runState, cbAtStart>>

\* levelAPI.update: the interaction system follows the player
LevelUpdate ==
  /\ controller
  /\ Nearest(triggers, playerAt) # activeTrigger
  /\ Becomes([Runner EXCEPT !.activeTrigger = Nearest(triggers, playerAt),
                            !.promptHidden = Nearest(triggers, playerAt) = NoTrigger])
  /\ lastOp' = "levelUpdate"
  /\ lastEvent' = "none"
  /\ UNCHANGED hostVars

\* main.js keydown / gamepad A in level_freeroam
TryInteract ==
  /\ gameState = "level_freeroam"
  /\ Becomes(tryInteract(Runner))
  /\ lastOp' = "tryInteract"
  /\ lastEvent' = "none"
  /\ UNCHANGED hostVars

Next ==
  \/ SetOnComplete
  \/ \E sequence \in SequenceLists : Start(sequence)
  \/ \E dt \in DtSet : Update(dt)
  \/ \E eventName \in Events : Signal(eventName, "none")
  \/ Stop

Spec == Init /\ [][Next]_vars

TypeOK ==
  /\ currentIndex \in 0..Len(beats)
  /\ activeBeat.id \in 0..Len(calls)
  /\ isRunning \in BOOLEAN
  /\ Len(calls) <= MaxBeats

\* ------------------------------------------- descriptors with only a type
\* one-element lists whose descriptor carries nothing but its type tag
KindLists == { <<TypeOnly(t)>> : t \in BeatTypes }

NextKinds ==
  \/ \E sequence \in KindLists : Start(sequence)
  \/ Update(10)
  \/ Stop

SpecKinds == Init /\ [][NextKinds]_vars

\* ------------------------------------------------ beats that wait for an event
SuspendLists ==
  { <<ShowChoiceDesc>>,
    <<ShowStoryDesc>>,
    <<KeyPromptDesc("A")>>,
    <<KeyPromptDesc("B")>>,
    <<ShowStoryDesc, WaitDesc(10)>>,
    <<TypeOnly("fade"), CameraMoveDesc("linear", 10)>> }

\* "key_A" is a name no beat listens for
SuspendEvents == {"choice_made", "story_continue", "key_a", "key_b", "key_A"}

NextSuspend ==
  \/ \E sequence \in SuspendLists : Start(sequence)
  \/ \E dt \in DtSet : Update(dt)
  \/ \E eventName \in SuspendEvents : Signal(eventName, "none")
  \/ Stop

SpecSuspend == Init /\ [][NextSuspend]_vars

\* --------------------------------- events sent while no beat waits for them
LostLists ==
  { <<WaitDesc(4), ShowChoiceDesc>>,
    <<ShowStoryDesc, KeyPromptDesc("A")>>,
    <<TypeOnly("reaction"), ShowStoryDesc>> }

LostEvents == {"choice_made", "story_continue", "key_a"}

NextLost ==
  \/ \E sequence \in LostLists : Start(sequence)
  \/ \E dt \in DtSet : Update(dt)
  \/ \E eventName \in LostEvents : Signal(eventName, "none")
  \/ Stop

SpecLost == Init /\ [][NextLost]_vars

\* ------------------------------------------- runs that are stopped half way
AbortLists ==
  { << >>,
    <<WaitDesc(10)>>,
    <<TypeOnly("reaction"), WaitDesc(4)>>,
    <<BogusDesc, WaitDesc(0)>>,
    <<WaitDesc(4), TypeOnly("text_bubble"), TypeOnly("overlay")>> }

NextAbort ==
  \/ SetOnComplete
  \/ \E sequence \in AbortLists : Start(sequence)
  \/ \E dt \in DtSet : Update(dt)
  \/ Stop

SpecAbort == Init /\ [][NextAbort]_vars

\* ------------------------------------------- beats that wait for the player
InteractLists ==
  { <<InteractionDesc("chair")>>,
    <<ShowChoiceDesc>>,
    <<KeyPromptDesc("A"), ShowStoryDesc>> }

\* payload.id of an "interaction" signal; "none" stands for no payload
Payloads == {"none", "chair", "phone"}

\* where the player walks while these lists run
InteractPlaces == {"spawn", "chair"}

InteractEvents == {"interaction", "choice_made", "key_a"}

NextInteract ==
  \/ \E sequence \in InteractLists : Start(sequence)
  \/ \E dt \in DtSet : Update(dt)
  \/ \E eventName \in InteractEvents, payload \in Payloads :
       /\ eventName # "interaction" => payload = "none"
       /\ Signal(eventName, payload)
  \/ \E at \in InteractPlaces : MovePlayer(at)
  \/ LevelUpdate
  \/ TryInteract

SpecInteract == Init /\ [][NextInteract]_vars

\* ------------------------------------------------ beats that own a resource
ResourceLists ==
  { <<TypeOnly("text_bubble")>>,
    <<TypeOnly("reaction")>>,
    <<KeyPromptDesc("A")>>,
    <<TypeOnly("reaction"), TypeOnly("text_bubble")>> }

NextResource ==
  \/ \E sequence \in ResourceLists : Start(sequence)
  \/ \E dt \in DtSet : Update(dt)
  \/ Signal("key_a", "none")
  \/ Stop

SpecResource == Init /\ [][NextResource]_vars

\* ------------------------------------------- beats that call a collaborator
\* every combination of hooks and DOM elements being there or not
EnvSet ==
  [container : BOOLEAN, overlayEl : BOOLEAN, setPhase : BOOLEAN,
   controlOverlay : BOOLEAN, callback : BOOLEAN]

HookLists ==
  { <<TypeOnly("custom_callback")>>,
    <<TypeOnly("text_bubble")>>,
    <<TypeOnly("fade")>>,
    <<TypeOnly("scene_swap"), TypeOnly("overlay")>>,
    <<TypeOnly("custom_callback"), TypeOnly("fade")>> }

InitHooks == \E e \in EnvSet : InitWith(e)

NextHooks ==
  \/ \E sequence \in HookLists : Start(sequence)
  \/ \E dt \in DtSet : Update(dt)
  \/ Stop

SpecHooks == InitHooks /\ [][NextHooks]_vars

\* ------------------------------------------------ beats that move the camera
\* the move of Scenario B over 2.0 s, and one move over 1.0 s per easing
CameraLists ==
  { <<CameraMoveDesc("linear", 20)>> } \cup
  { <<CameraMoveDesc(e, 10)>> : e \in EasingNames }

NextCamera ==
  \/ \E sequence \in CameraLists : Start(sequence)
  \/ \E dt \in DtSet : Update(dt)
  \/ Stop

SpecCamera == Init /\ [][NextCamera]_vars

\* ------------------------------------------------ beats that hand over control
RoamLists ==
  { <<FreeRoamReachDesc("chair")>>,
    <<FreeRoamInteractDesc("chair", "chair")>>,
    <<FreeRoamInteractAnyDesc("chair")>>,
    <<InteractionDesc("chair")>>,
    <<WaitDesc(10), FreeRoamReachDesc("chair")>> }

NextRoam ==
  \/ \E sequence \in RoamLists : Start(sequence)
  \/ \E dt \in DtSet : Update(dt)
  \/ \E payload \in Payloads : Signal("interaction", payload)
  \/ Stop
  \/ \E at \in InteractPlaces : MovePlayer(at)

SpecRoam == Init /\ [][NextRoam]_vars

\* ------------------------------------------------ free roam on its own
FreeRoamLists ==
  { <<FreeRoamReachDesc("chair")>>,
    <<FreeRoamInteractDesc("chair", "chair")>>,
    <<FreeRoamInteractAnyDesc("chair")>> }

NextFreeRoam ==
  \/ \E sequence \in FreeRoamLists : Start(sequence)
  \/ \E dt \in DtSet : Update(dt)
  \/ \E payload \in Payloads : Signal("interaction", payload)
  \/ Signal("key_a", "none")
  \/ Stop
  \/ \E at \in InteractPlaces : MovePlayer(at)

SpecFreeRoam == Init /\ [][NextFreeRoam]_vars

\* ------------------------------------------------ beats that swap the scene
SwapLists ==
  { <<SceneSwapDesc("CITY"), TypeOnly("reaction")>>,
    <<SceneSwapDesc("OFFICE"), ShowChoiceDesc>>,
    <<SceneSwapDesc("SUBWAY")>>,
    <<TypeOnly("scene_swap")>> }

NextSwap ==
  \/ \E sequence \in SwapLists : Start(sequence)
  \/ \E dt \in DtSet : Update(dt)
  \/ Signal("choice_made", "none")
  \/ Stop

SpecSwap == Init /\ [][NextSwap]_vars

\* ------------------------------------------------ beats that call back
CallbackLists ==
  { <<CustomCallbackDesc>>,
    <<CustomCallbackFor(10)>>,
    <<CustomCallbackDesc, CustomCallbackFor(4)>>,
    <<CustomCallbackFor(4), CustomCallbackFor(10)>>,
    <<CustomCallbackDesc, CustomCallbackDesc>>,
    <<CustomCallbackDesc, CustomCallbackDesc, CustomCallbackDesc>> }

NextCallback ==
  \/ \E sequence \in CallbackLists : Start(sequence)
  \/ \E dt \in DtSet : Update(dt)
  \/ Stop

SpecCallback == Init /\ [][NextCallback]_vars

\* ---------------------------------------------------------------- claims
BeatIds == 1..Len(calls)

\* C1: every beat that was started and is no longer the runner's beat in
\* progress has had finish called exactly once, and no beat ever has finish
\* called twice.
C1_FinishExactlyOnce ==
  \A id \in BeatIds :
    /\ calls[id].finishes <= 1
    /\ id # activeBeat.id => calls[id].finishes = 1

\* C2: in a run that was not stopped, with N the length of the list: while
\* fewer than N beats have reported done the runner is running and the
\* completion callback has not fired; once N have, the runner is not running
\* and the callback (when one was set at start) has fired exactly once.
C2_CompletesAfterN ==
  runState = "started" =>
    /\ completions <= Len(beats)
    /\ completions < Len(beats) => isRunning /\ fired = 0
    /\ completions = Len(beats) =>
         /\ ~isRunning
         /\ fired <= 1
         /\ cbAtStart => fired = 1

C2_Witness ==
  /\ runState = "started"
  /\ Len(beats) >= 2
  /\ completions = Len(beats)
  /\ ~isRunning
  /\ fired = 1

\* C3: at most one beat is started and not yet finished.
C3_AtMostOneLive ==
  Cardinality({id \in BeatIds : Live(calls[id])}) <= 1

\* C4: update is never called on a beat after finish was called on it.
C4_NoUpdateAfterFinish ==
  \A id \in BeatIds : ~calls[id].updAfterFinish

\* C5: onSignal is never called on a beat that is not started or is finished.
C5_SignalOnlyLive ==
  \A id \in BeatIds : ~calls[id].sigWhenNotLive

\* C6: from a stop until the next start the runner is not running and has no
\* active beat; the next start sets currentIndex to 0 and, for a non-empty
\* list, makes a freshly constructed and started beat 0 the active beat.
C6_StopThenStart ==
  /\ [](runState = "stopped" => ~isRunning /\ activeBeat = NULL)
  /\ [][(runState = "stopped" /\ lastOp' = "start") =>
          IF Len(beats') = 0
          THEN currentIndex' = 0 /\ activeBeat' = NULL /\ calls' = calls
          ELSE /\ currentIndex' = 0
               /\ isRunning'
               /\ Len(calls') = Len(calls) + 1
               /\ calls'[Len(calls')] = CalledStart(NewCalls)
               /\ activeBeat' = BeatStart([createBeat(beats'[1])
                                             EXCEPT !.id = Len(calls')])]_vars

\* C7: a signal call changes neither currentIndex, isRunning nor which beat
\* is active, and calls no start, finish or update; an update that directly
\* follows signal("choice_made") on a running show_choice beat reports done,
\* and for the list [show_choice] that update ends the run.
C7_SignalSeenByNextUpdate ==
  /\ [][lastOp' = "signal" =>
          /\ UNCHANGED <<currentIndex, isRunning, beats, fired, completions>>
          /\ activeBeat'.id = activeBeat.id
          /\ Len(calls') = Len(calls)
          /\ \A id \in BeatIds :
               /\ calls'[id].starts = calls[id].starts
               /\ calls'[id].finishes = calls[id].finishes
               /\ calls'[id].doneReports = calls[id].doneReports]_vars
  /\ [][(/\ lastOp = "signal" /\ lastEvent = "choice_made"
         /\ isRunning /\ activeBeat.cls = "ShowChoiceBeat"
         /\ lastOp' = "update") =>
          /\ calls'[activeBeat.id].doneReports = 1
          /\ calls'[activeBeat.id].finishes = 1
          /\ currentIndex' = currentIndex + 1
          /\ beats = <<ShowChoiceDesc>> => ~isRunning']_vars

C7_Witness ==
  /\ lastOp = "update"
  /\ runState = "started"
  /\ beats = <<ShowChoiceDesc>>
  /\ completions = 1
  /\ ~isRunning

\* C8: the update call in which a beat reports done also finishes that beat,
\* increments currentIndex and, when a descriptor is left, constructs and
\* starts the next beat, which has received no update yet; otherwise the run
\* ends.  No beat reports done twice or is updated after it reported done.
C8_AdvancesInSameUpdate ==
  /\ [](\A id \in BeatIds :
          calls[id].doneReports <= 1 /\ ~calls[id].updAfterDone)
  /\ [][(lastOp' = "update" /\ completions' # completions) =>
          /\ calls'[activeBeat.id].finishes = calls[activeBeat.id].finishes + 1
          /\ currentIndex' = currentIndex + 1
          /\ IF currentIndex + 1 < Len(beats)
             THEN /\ isRunning'
                  /\ Len(calls') = Len(calls) + 1
                  /\ calls'[Len(calls')] = CalledStart(NewCalls)
                  /\ activeBeat' = BeatStart([createBeat(beats[currentIndex + 2])
                                                EXCEPT !.id = Len(calls')])
                  /\ beatUpdates' = 0
             ELSE ~isRunning']_vars

\* C9: the run of [{type:"bogus"}, wait(0)], when not stopped, is over and
\* its completion callback has fired once two update calls have been made.
C9_BogusThenWait0 ==
  (runState = "started" /\ beats = <<BogusDesc, WaitDesc(0)>> /\ updCalls >= 2) =>
    ~isRunning /\ (cbAtStart => fired = 1)

\* C10: a beat made from wait(0) is not still in progress after an update
\* call: its first update reports done.
C10_Wait0DoneOnFirstUpdate ==
  ~(/\ isRunning
    /\ currentIndex < Len(beats)
    /\ beats[currentIndex + 1] = WaitDesc(0)
    /\ beatUpdates >= 1)

\* C15: for each of the 13 beat kinds, start of a list whose one descriptor
\* carries only its type tag raises no error and leaves a started beat of that
\* kind as the active beat.
C15_TypeOnlyStarts ==
  \A t \in BeatTypes :
    (lastOp = "start" /\ beats = <<TypeOnly(t)>>) =>
      /\ ~threw
      /\ activeBeat = BeatStart([createBeat(TypeOnly(t)) EXCEPT !.id = Len(calls)])
      /\ Live(calls[activeBeat.id])

\* C13: activeBeat is either null or a beat that has been started and not
\* finished; after the list has run to its end it does not still reference
\* the finished last beat.
C13_ActiveBeatIsLive ==
  activeBeat = NULL \/ Live(calls[activeBeat.id])

\* C14: within one run currentIndex never decreases, grows by exactly 1 in an
\* update in which a beat reports done and in no other call (signal, stop and
\* an update without completion leave it unchanged), and stays in 0..N for
\* the list of N descriptors.
C14_IndexMonotone ==
  /\ [](currentIndex >= 0 /\ currentIndex <= Len(beats))
  /\ [][lastOp' # "start" =>
          /\ currentIndex' >= currentIndex
          /\ currentIndex' = currentIndex + (completions' - completions)
          /\ completions' - completions \in {0, 1}
          /\ lastOp' # "update" => completions' = completions]_vars

\* a run of three beats has advanced past the second and was then stopped
C14_Witness ==
  /\ lastOp = "stop"
  /\ Len(beats) = 3
  /\ currentIndex = 2
  /\ completions = 2

\* the call a suspended beat makes on start to show its panel or prompt
ShowCall(data) ==
  CASE data.type = "show_choice" -> "onShowChoice"
    [] data.type = "show_story" -> "onShowStory"
    [] OTHER -> "showPrompt"

\* the active beat is a live show_choice, show_story or key_prompt beat
SuspendedActive ==
  /\ activeBeat # NULL
  /\ activeData.type \in {"show_choice", "show_story", "key_prompt"}
  /\ Live(calls[activeBeat.id])

\* C11: a show_choice, show_story or key_prompt beat makes its show call once
\* on start; it reports done in no update before its own event ("choice_made",
\* "story_continue", "key_" followed by the lower-cased key) has been
\* signalled, whatever other events are sent, and in the first update after.
C11_BlocksUntilOwnEvent ==
  /\ [](SuspendedActive =>
          /\ effects = <<ShowCall(activeData)>>
          /\ ~heardMatch => calls[activeBeat.id].doneReports = 0)
  /\ [][(SuspendedActive /\ lastOp' = "update") =>
          (completions' = completions + 1 <=> heardMatch)]_vars

\* a key_prompt for key "A" stayed blocked over updates and was let through
\* by key_a
C11_Witness ==
  /\ lastOp = "update"
  /\ beats = <<KeyPromptDesc("A")>>
  /\ heardMatch
  /\ updCalls >= 2
  /\ completions = 1
  /\ ~isRunning

\* beat id holds no resource: no element in #level-ui, no sprite in the scene
Released(id, ui, scene) == id \notin ui /\ id \notin scene

\* C12: stop called while a text_bubble, reaction or key_prompt beat is active
\* calls finish on that beat, after which its element is no longer in
\* #level-ui, its sprite is no longer in the scene and the prompt is hidden;
\* the runner is then idle and a start that follows runs the first beat of
\* the new list.
C12_StopReleases ==
  /\ [][(/\ lastOp' = "stop"
         /\ activeBeat # NULL
         /\ Live(calls[activeBeat.id])
         /\ activeData.type \in {"text_bubble", "reaction", "key_prompt"}) =>
          /\ calls'[activeBeat.id].finishes = 1
          /\ Released(activeBeat.id, levelUi', sprites')
          /\ activeData.type = "key_prompt" => promptHidden'
          /\ ~isRunning'
          /\ activeBeat' = NULL]_vars
  /\ [][(lastOp = "stop" /\ lastOp' = "start") =>
          /\ isRunning'
          /\ currentIndex' = 0
          /\ Len(calls') = Len(calls) + 1
          /\ activeBeat'.id = Len(calls')
          /\ Live(calls'[Len(calls')])]_vars

\* a reaction beat that had put its sprite into the scene was stopped mid-beat
C12_Witness ==
  /\ lastOp = "stop"
  /\ beats = <<TypeOnly("reaction")>>
  /\ Len(calls) >= 1
  /\ calls[Len(calls)].finishes = 1
  /\ calls[Len(calls)].doneReports = 0
  /\ beatUpdates >= 1
  /\ sprites = {}

\* the hook the start of a beat made from data reaches for is not there
HookMissing(data) ==
  CASE data.type = "custom_callback" -> ~env.callback
    [] data.type = "text_bubble" -> ~env.container
    [] data.type = "fade" -> ~env.overlayEl
    [] data.type = "scene_swap" -> ~env.setPhase
    [] data.type = "overlay" -> ~env.controlOverlay
    [] OTHER -> FALSE

\* the time after which a beat made from a type-only descriptor is over
OwnDuration(data) ==
  CASE data.type = "text_bubble" -> 30
    [] data.type = "fade" -> 10
    [] OTHER -> 0

\* the active beat is live and its hook is missing
ActiveWithoutHook ==
  /\ activeBeat # NULL
  /\ Live(calls[activeBeat.id])
  /\ HookMissing(activeData)

\* C16: a custom_callback, text_bubble, fade, scene_swap or overlay beat whose
\* collaborator hook is missing starts without an error and without its side
\* effect; custom_callback, text_bubble and fade still report done in the
\* update in which their own time is up, scene_swap and overlay in their first
\* update, and that update moves the sequence on.
C16_MissingHookSkipped ==
  /\ [](ActiveWithoutHook =>
          /\ ~threw
          /\ effects = << >>
          /\ activeBeat.id \notin levelUi)
  /\ [][(ActiveWithoutHook /\ lastOp' = "update") =>
          /\ ~threw'
          /\ completions' = completions + 1 <=> accDt' >= OwnDuration(activeData)
          /\ accDt' >= OwnDuration(activeData) =>
               /\ currentIndex' = currentIndex + 1
               /\ calls'[activeBeat.id].finishes = 1
               /\ IF currentIndex' < Len(beats)
                  THEN activeBeat'.id = Len(calls') /\ Live(calls'[Len(calls')])
                  ELSE ~isRunning']_vars

\* with no hook at all, scene_swap and then overlay were each done in one
\* update and the run is over
C16_Witness ==
  /\ env = [container |-> FALSE, overlayEl |-> FALSE, setPhase |-> FALSE,
            controlOverlay |-> FALSE, callback |-> FALSE]
  /\ lastOp = "update"
  /\ beats = <<TypeOnly("scene_swap"), TypeOnly("overlay")>>
  /\ runState = "started"
  /\ completions = 2
  /\ updCalls = 2
  /\ ~isRunning

\* C17: a signal sent while there is no active beat, or while the active beat
\* has no onSignal, or with an event name the active beat does not wait for,
\* raises no error and changes nothing of the runner, of the beat or of what
\* the beats act on.
C17_UnheardSignalDropped ==
  [][(/\ lastOp' = "signal"
      /\ \/ activeBeat = NULL
         \/ ~HasOnSignal(activeBeat)
         \/ ~Matches(activeData, lastEvent', "none")) =>
       /\ ~threw'
       /\ UNCHANGED <<beats, currentIndex, activeBeat, isRunning, onComplete,
                      fired, completions, beatUpdates, heardMatch,
                      levelUi, sprites, promptHidden, gameState, controller,
                      triggers, activeTrigger, camera>>]_vars

\* a running show_story beat that has been updated was sent "choice_made"
\* and is still waiting
C17_Witness ==
  /\ lastOp = "signal"
  /\ lastEvent = "choice_made"
  /\ isRunning
  /\ activeBeat.cls = "ShowStoryBeat"
  /\ activeBeat.waiting
  /\ beatUpdates >= 1

\* the active beat is a live beat that waits for an event or for the player
\* and has been given neither
WaitingUnheard ==
  /\ activeBeat # NULL
  /\ Live(calls[activeBeat.id])
  /\ activeData.type \in {"show_choice", "show_story", "key_prompt", "interaction"}
  /\ ~heardMatch

\* C18: while a show_choice, show_story, key_prompt or interaction beat is
\* active and has received neither its event nor the player's interaction,
\* an update with any dt leaves the run running on the same beat at the same
\* index, with no beat completed and the completion callback not invoked.
C18_StallsWithoutSignal ==
  [][(WaitingUnheard /\ lastOp' = "update") =>
       /\ isRunning'
       /\ currentIndex' = currentIndex
       /\ activeBeat' = activeBeat
       /\ completions' = completions
       /\ fired' = fired
       /\ calls'[activeBeat.id].finishes = 0]_vars

\* an interaction beat for the chair is still waiting after updates, with the
\* player standing at the chair and its prompt showing
C18_Witness ==
  /\ lastOp = "update"
  /\ isRunning
  /\ beats = <<InteractionDesc("chair")>>
  /\ activeBeat.waiting
  /\ activeTrigger.owner = activeBeat.id
  /\ playerAt = "chair"
  /\ beatUpdates >= MaxUpdates
  /\ fired = 0

\* the active beat is a live wait beat made with a positive duration
WaitActive ==
  /\ activeBeat # NULL
  /\ Live(calls[activeBeat.id])
  /\ activeData.type = "wait"
  /\ "duration" \in DOMAIN activeData
  /\ activeData.duration > 0

\* C19: a wait beat with positive duration d reports done in the first update
\* at which the dt summed over its updates is >= d, and in none before; when
\* it is the last beat of the list that update leaves isRunning false.  For
\* [wait(1.0)] and update(0.4) that is the third update.
C19_WaitDoneAtDuration ==
  /\ [](WaitActive =>
          accDt < activeData.duration /\ calls[activeBeat.id].doneReports = 0)
  /\ [][(WaitActive /\ lastOp' = "update") =>
          /\ completions' = completions + 1 <=> accDt' >= activeData.duration
          /\ (accDt' >= activeData.duration /\ currentIndex + 1 = Len(beats)) =>
               ~isRunning']_vars

\* [wait(1.0)] is over after updates of 0.4 that sum up to 1.2
C19_Witness ==
  /\ lastOp = "update"
  /\ beats = <<WaitDesc(10)>>
  /\ runState = "started"
  /\ accDt = 12
  /\ completions = 1
  /\ ~isRunning

\* the active beat is a live camera_move beat
CameraActive ==
  /\ activeBeat # NULL
  /\ Live(calls[activeBeat.id])
  /\ activeData.type = "camera_move"

\* the camera, at num/den, is at from + (to - from) * n / d
CameraAt(data, n, d) ==
  camera'.num * d = camera'.den * (data.from * d + (data.to - data.from) * n)

\* C20: after each update a camera_move beat with linear easing has the
\* camera at from + (to - from) * min(elapsed / duration, 1); with any easing
\* the beat reports done in the first update at which elapsed >= duration,
\* and the camera is then at `to`.  From 0 to 10 over 2.0 s: 5 after
\* update(1.0), 10 and done after the second.
C20_CameraLerp ==
  [][(CameraActive /\ lastOp' = "update") =>
       LET d == activeData.duration
           n == IF accDt' >= d THEN d ELSE accDt'
       IN /\ completions' = completions + 1 <=> accDt' >= d
          /\ activeData.easing = "linear" => CameraAt(activeData, n, d)
          /\ accDt' >= d => camera'.num = activeData.to * camera'.den]_vars

\* Scenario B is over: two updates of 1.0 s, the camera at 10
C20_Witness ==
  /\ lastOp = "update"
  /\ beats = <<CameraMoveDesc("linear", 20)>>
  /\ runState = "started"
  /\ accDt = 20
  /\ updCalls = 2
  /\ completions = 1
  /\ ~isRunning
  /\ camera.num = 10 * camera.den

\* the active beat is a live free_roam or interaction beat
RoamActive ==
  /\ activeBeat # NULL
  /\ Live(calls[activeBeat.id])
  /\ activeData.type \in {"free_roam", "interaction"}

\* the ids of the beats constructed as free_roam or interaction beats whose
\* finish is called in this step
RoamFinished ==
  /\ activeBeat # NULL
  /\ activeBeat.cls \in {"FreeRoamBeat", "InteractionBeat"}
  /\ calls'[activeBeat.id].finishes = calls[activeBeat.id].finishes + 1

\* C21: a free_roam or interaction beat, on start, sets the game state to
\* "level_freeroam" and enables the player controller; its finish, in an
\* update or in stop, sets the game state to "level_sequence" and disables the
\* controller; the controller is enabled only while such a beat is live.
C21_HandOffBracketed ==
  /\ [](controller => RoamActive)
  /\ [][(lastOp' = "start" /\ ~threw'
         /\ beats'[1].type \in {"free_roam", "interaction"}) =>
          gameState' = "level_freeroam" /\ controller']_vars
  /\ [][(RoamFinished /\ lastOp' = "stop") =>
          gameState' = "level_sequence" /\ ~controller']_vars
  /\ [][(RoamFinished /\ lastOp' = "update" /\ ~isRunning') =>
          gameState' = "level_sequence" /\ ~controller']_vars

\* the active beat is a live free_roam beat
FreeRoamActive ==
  /\ activeBeat # NULL
  /\ Live(calls[activeBeat.id])
  /\ activeData.type = "free_roam"

\* the free_roam beat made from data polls the player's position
PollsPosition(data) ==
  "triggerType" \notin DOMAIN data \/ data.triggerType = "reach_position"

\* C22: a free_roam beat with trigger type "reach_position" reports done in
\* the first update at which the player is within the radius of the target
\* position, whatever "interaction" signals it was sent; one with trigger type
\* "interact" reports done in the first update after an "interaction" signal
\* whose payload id is its targetId (any "interaction" signal when it has no
\* targetId), wherever the player stands.
C22_FreeRoamTrigger ==
  [][(FreeRoamActive /\ lastOp' = "update") =>
       (completions' = completions + 1 <=>
          IF PollsPosition(activeData)
          THEN playerAt = activeData.targetPosition
          ELSE heardMatch)]_vars

\* a free_roam beat waiting for an interaction with the chair was not done by
\* updates while the player stood at its target position, and was done after
\* the signal for the chair
C22_Witness ==
  /\ lastOp = "update"
  /\ beats = <<FreeRoamInteractDesc("chair", "chair")>>
  /\ runState = "started"
  /\ playerAt = "chair"
  /\ updCalls >= 2
  /\ heardMatch
  /\ completions = 1
  /\ ~isRunning

\* the active beat is a live interaction beat
InteractionActive ==
  /\ activeBeat # NULL
  /\ Live(calls[activeBeat.id])
  /\ activeData.type = "interaction"

C24_TriggerDisarmed ==
  activeTrigger # NoTrigger => Live(calls[activeTrigger.owner])

\* the active beat is a live scene_swap beat
SceneSwapActive ==
  /\ activeBeat # NULL
  /\ Live(calls[activeBeat.id])
  /\ activeData.type = "scene_swap"

\* C25: a scene_swap beat calls the level's setPhase once, in start, with its
\* target phase, and binds context.scene and context.camera to the scene and
\* camera of the level's sub-scene for that phase; the beats that follow in
\* the run find these in the context; the beat reports done in its first
\* update, in which setPhase is not called again.
C25_SceneSwapRebinds ==
  /\ [](SceneSwapActive =>
          /\ effects = <<"setPhase">>
          /\ level.currentPhase = activeBeat.targetPhase
          /\ activeBeat.targetPhase \in Phases =>
               context = [scene |-> activeBeat.targetPhase,
                          camera |-> activeBeat.targetPhase])
  /\ [](isRunning =>
          context = [scene |-> level.activeSubScene,
                     camera |-> level.activeSubScene])
  /\ [][(SceneSwapActive /\ lastOp' = "update") =>
          /\ completions' = completions + 1
          /\ level' = level
          /\ context' = context]_vars

\* after the swap to CITY the reaction beat that follows has been started
\* with the city's scene and camera in the context
C25_Witness ==
  /\ lastOp = "update"
  /\ beats = <<SceneSwapDesc("CITY"), TypeOnly("reaction")>>
  /\ currentIndex = 1
  /\ isRunning
  /\ activeBeat.cls = "ReactionBeat"
  /\ beatUpdates = 0
  /\ context = [scene |-> "CITY", camera |-> "CITY"]

\* the active beat is a live custom_callback beat
CallbackActive ==
  /\ activeBeat # NULL
  /\ Live(calls[activeBeat.id])
  /\ activeData.type = "custom_callback"

\* the time a custom_callback beat made from data holds: zero when none is given
HoldTime(data) == IF "duration" \in DOMAIN data THEN data.duration ELSE 0

\* C26: a custom_callback beat calls its function from the level's callback
\* table once, in start, and neither its updates nor its finish call it
\* again; it reports done in the first update at which the dt summed over its
\* updates is >= its duration, which with no duration given is its first
\* update.
C26_CallbackOnce ==
  /\ [](CallbackActive => effects = <<"callback">>)
  /\ [][(CallbackActive /\ lastOp' \in {"update", "stop"}) =>
          /\ (activeBeat' = NULL \/ activeBeat'.id = activeBeat.id) =>
               effects' = effects
          /\ (lastOp' = "update" /\ activeBeat'.id = activeBeat.id) =>
               (completions' = completions + 1 <=>
                  accDt' >= HoldTime(activeData))
          /\ (lastOp' = "update" /\ activeBeat'.id # activeBeat.id) =>
               /\ completions' = completions + 1
               /\ \E dt \in DtSet : accDt + dt >= HoldTime(activeData)]_vars

\* a custom_callback beat holding for 1.0 s was not done by its first update
\* and is done, the callback having been called once
C26_Witness ==
  /\ lastOp = "update"
  /\ beats = <<CustomCallbackFor(10)>>
  /\ runState = "started"
  /\ updCalls >= 2
  /\ accDt >= 10
  /\ completions = 1
  /\ ~isRunning
  /\ effects = <<"callback">>

\* ------------------------------------------------------------------ C27
\* the sprite's scale after update, as a fraction; elapsed and duration are
\* in tenths of a second, the curve's own constants in hundredths
ReactionScale(b) ==
  LET e == 10 * b.elapsed
      d == 10 * b.duration
      bounce == IF e < 15 THEN [num |-> 13 * e, den |-> 150]
                ELSE IF e < 30 THEN [num |-> 80 - e, den |-> 50]
                ELSE [num |-> 1, den |-> 1]
  IN  IF e > d - 20
        THEN [num |-> IF d - e > 0 THEN d - e ELSE 0, den |-> 20]
        ELSE bounce

ReactionActive ==
  /\ isRunning
  /\ activeBeat # NULL
  /\ activeBeat.cls = "ReactionBeat"

\* C27: while a reaction beat of duration D is active its sprite's scale
\* follows a curve proportional to D: it grows from 0 to 1.3 over the first
\* 0.15*D, settles to 1.0 by 0.30*D, holds 1.0, and shrinks to 0 over the
\* final 0.20*D.
C27_ScaleProportional ==
  ReactionActive =>
    LET e == activeBeat.elapsed
        d == activeBeat.duration
        s == ReactionScale(activeBeat)
        stated ==
          IF 100 * e > 80 * d
            THEN [num |-> IF d - e > 0 THEN 5 * (d - e) ELSE 0, den |-> d]
          ELSE IF 100 * e < 15 * d THEN [num |-> 26 * e, den |-> 3 * d]
          ELSE IF 100 * e < 30 * d THEN [num |-> 16 * d - 20 * e, den |-> 10 * d]
          ELSE [num |-> 1, den |-> 1]
    IN  s.num * stated.den = stated.num * s.den

\* ------------------------------------------------------------------ C28
\* C28: an update call touches at most one beat and starts at most one: the
\* call log of every beat other than the one active before the call is
\* unchanged, at most one beat is created, and a beat created by the call has
\* been started once and neither updated nor finished when the call returns;
\* so the index never exceeds the number of update calls since start, and a
\* run over N descriptors that has completed has seen at least N update calls.
C28_OneBeatPerUpdate ==
  /\ [][lastOp' = "update" =>
          /\ Len(calls') <= Len(calls) + 1
          /\ \A id \in 1..Len(calls) :
               (activeBeat = NULL \/ id # activeBeat.id) => calls'[id] = calls[id]
          /\ Len(calls') = Len(calls) + 1 =>
               /\ calls'[Len(calls')] = CalledStart(NewCalls)
               /\ activeBeat'.id = Len(calls')
               /\ beatUpdates' = 0
               /\ currentIndex' = currentIndex + 1]_vars
  /\ []((runState = "started" /\ updCalls < MaxUpdates) => currentIndex <= updCalls)
  /\ []((runState = "started" /\ ~isRunning /\ completions = Len(beats)) =>
          updCalls >= IF Len(beats) < MaxUpdates THEN Len(beats) ELSE MaxUpdates)

\* a list of two instant beats has completed, after two update calls
C28_Witness ==
  /\ lastOp = "update"
  /\ runState = "started"
  /\ beats = <<CustomCallbackDesc, CustomCallbackDesc>>
  /\ ~isRunning
  /\ completions = 2
  /\ updCalls = 2
  /\ Len(calls) = 2

\* ------------------------------------------------------------------ C29
SuspendTypes == {"show_choice", "show_story", "key_prompt"}

\* the beat has not been told of its event
Blocked(b) ==
  IF b.cls = "KeyPromptBeat" THEN ~b.triggered ELSE b.waiting

\* the runner and everything its beats reach, without the record of calls
Kept(r) == [r EXCEPT !.calls = <<>>, !.threw = FALSE]

\* C29: a signal whose event the active beat does not wait for, or that comes
\* while no beat is active (before start, after stop or completion), changes
\* nothing in the runner or its beats; every show_choice, show_story or
\* key_prompt beat that becomes active starts blocked with no event heard; and
\* such a beat completes only after a matching signal sent while it was active.
C29_SignalsNotBuffered ==
  /\ [][(lastOp' = "signal"
         /\ ~(activeBeat # NULL /\ Matches(activeData, lastEvent', "none"))) =>
          Kept(Runner') = Kept(Runner)]_vars
  /\ [][(/\ activeBeat' # NULL
         /\ activeData'.type \in SuspendTypes
         /\ (activeBeat = NULL \/ activeBeat'.id # activeBeat.id)) =>
          Blocked(activeBeat') /\ ~heardMatch']_vars
  /\ [][(/\ activeBeat # NULL
         /\ activeData.type \in SuspendTypes
         /\ completions' = completions + 1) => heardMatch]_vars

\* "choice_made" has just been signalled during the wait that precedes the
\* show_choice beat
C29_Witness ==
  /\ lastOp = "signal"
  /\ lastEvent = "choice_made"
  /\ isRunning
  /\ beats = <<WaitDesc(4), ShowChoiceDesc>>
  /\ activeData.type = "wait"
  /\ currentIndex = 0

\* ------------------------------------------------------------------ C30
\* C30: the completion callback is invoked only by the call that takes the
\* index to the end of the list (an update, or start for an empty list), which
\* leaves the runner not running; stop never invokes it; a run stopped before
\* all its beats completed has invoked it zero times, also after later update
\* calls; and no run invokes it more than once.
C30_CallbackOnlyOnCompletion ==
  /\ [](fired <= 1)
  /\ []((runState = "stopped" /\ completions < Len(beats)) => fired = 0)
  /\ [][lastOp' = "stop" => fired' = fired]_vars
  /\ [][fired' = fired + 1 =>
          /\ lastOp' \in {"start", "update"}
          /\ onComplete
          /\ ~isRunning'
          /\ currentIndex' = Len(beats')]_vars

\* a run of two beats with a callback set was stopped after its first beat
\* completed, and the callback has not been invoked
C30_Witness ==
  /\ lastOp = "stop"
  /\ runState = "stopped"
  /\ cbAtStart
  /\ onComplete
  /\ beats = <<TypeOnly("reaction"), WaitDesc(4)>>
  /\ completions = 1
  /\ fired = 0

====
